---------------------------- MODULE Spec2Model ----------------------------
(***************************************************************************)
(* A model of lyro: the splittable RandomKey (lyro/random.py), the         *)
(* interpreter chain (lyro/interpreters.py, lyro/runtime.py) and the       *)
(* concurrent Gibbs scheduler (lyro/infer.py) running on an asyncio event  *)
(* loop.                                                                   *)
(*                                                                         *)
(* Three specifications share the module:                                  *)
(*   SpecSplit    RandomKey.split applied repeatedly from the root key     *)
(*   SpecRuntime  sequential program executions through interpreter chains *)
(*   Spec         Gibbs.sample driven by the event loop, with distribution *)
(*                results, failures and caller cancellation as environment *)
(***************************************************************************)
EXTENDS Integers, Sequences, FiniteSets, TLC

VARIABLES
    \* ---- RandomKey under repeated splitting (SpecSplit)
    key,          \* state of the RandomKey object being split
    keyBefore,    \* its state when split() was called
    left,         \* state of the first key returned by the last split()
    right         \* state of the second key returned by the last split()

VARIABLES
    \* ---- interpreter objects (lyro/interpreters.py)
    INTERPRETER,  \* the module global: the active interpreter
    base,         \* Interpreter.base of every instance
    rngOf,        \* ThreadRandomKey.rng of every ThreadRandomKey instance
    cache,        \* Memoize.cache of every Memoize instance
    store,        \* rows of the key_value table of the sqlite database
    nodes,        \* Trace.nodes of every Trace instance
    condData,     \* Condition.data of every Condition instance
    calls,        \* log: the sample() calls made by the draw in progress or last made
    handed,       \* log: the rng each ThreadRandomKey passed downstream, in order
    invoked       \* log: number of Distribution.sample invocations so far

VARIABLES
    \* ---- a client running a program several times (SpecRuntime)
    memKind,      \* class of the memoizing interpreter of the global chain
    run,          \* number of the current (or last) execution
    running,      \* TRUE while an execution is inside its scopes
    runCfg,       \* per execution: the scopes it runs in
    pos,          \* number of sites the current execution has drawn
    prev,         \* the program's local variable x
    results,      \* log: per execution, the outcome of each draw
    rngAtDraw     \* log: rngOf as it was when the last draw started

VARIABLES
    \* ---- the arguments of Gibbs(model, data) and sample(num_steps)
    data,         \* Gibbs.data: observed site -> value
    numSteps,     \* the argument of sample()
    distCls,      \* the class of the distribution the model draws at each site
    blanketArg,   \* the markov_blanket argument of Gibbs(...), or None

    \* ---- the Gibbs object (lyro/infer.py)
    trace,        \* Gibbs.trace: the Trace instance of _init
    has_blanket,  \* hasattr(self, "markov_blanket")
    markov_blanket, \* Gibbs.markov_blanket: site -> list of sites
    rank,         \* Gibbs.rank
    counts,       \* Gibbs.counts, a Counter: only the sites counted are keys
    tasks,        \* Gibbs.tasks: site -> asyncio task, in insertion order
    num_pending,  \* Gibbs.num_pending

    \* ---- the asyncio event loop
    ready,        \* the loop's FIFO queue of callbacks
    main,         \* the task running sample()
    units,        \* the tasks running _do_work, in order of creation
    gather,       \* the future of the last asyncio.gather of sample()
    outcome,      \* how sample() ended
    cancelSent,   \* the caller has asked for sample() to be cancelled
    drawFailed    \* log: some Distribution.sample raised

VARIABLES
    \* ---- a client entering, leaving and composing interpreters (SpecScopes)
    entered,      \* the with blocks the client is inside, outermost first
    linked,       \* the instances whose base attribute has been assigned
    opsDone,      \* log: how many operations of each kind the client did
    lastOp,       \* log: the last operation of the client and what it saw
    draws         \* the calls of sample() on the memoizing interpreter (SpecMemo)

splitVars == <<key, keyBefore, left, right>>

scopeVars == <<entered, linked, opsDone, lastOp, draws>>

gibbsVars == <<data, numSteps, distCls, blanketArg, trace, has_blanket, markov_blanket, rank,
               counts, tasks, num_pending>>

loopVars == <<ready, main, units, gather, outcome, cancelSent, drawFailed>>

interpVars == <<INTERPRETER, base, rngOf, cache, store, nodes, condData,
                calls, handed, invoked>>

runtimeVars == <<memKind, run, running, runCfg, pos, prev, results, rngAtDraw>>

vars == <<splitVars, interpVars, runtimeVars, scopeVars, gibbsVars, loopVars>>

----------------------------------------------------------------------------
(* Python values *)

\* Python's None: an absent rng, and the tail of the root key state.
None == <<>>

----------------------------------------------------------------------------
(* lyro/random.py: RandomKey.  A key state is the pair (tail, head).       *)

\* RandomKey().state, the default constructor argument.
RootState == <<None, 0>>

\* A variant of split that keeps the head of the second key unchanged.
splitSameHead(state) == << <<state, 0>>, <<state[1], state[2]>> >>

\* RandomKey.split: (left, right) = ((state, 0), (state[0], state[-1] + 1)).
split(state) == << <<state, 0>>, <<state[1], state[2] + 1>> >>

\* Nesting depth of a key state.
RECURSIVE Depth(_)
Depth(state) == IF state = None THEN 0 ELSE 1 + Depth(state[1])

----------------------------------------------------------------------------
(* Python values used by the interpreters *)

\* The result of a call: a returned value or a raised exception.
Value(v) == [ok |-> TRUE, val |-> v]
Raise(e) == [ok |-> FALSE, val |-> e]

\* An insertion-ordered dict, kept as a sequence of entries with a name field.
DictHas(d, name) == \E n \in 1..Len(d) : d[n].name = name
DictGet(d, name) == d[CHOOSE n \in 1..Len(d) : d[n].name = name]
DictSet(d, entry) ==
    IF DictHas(d, entry.name)
    THEN [n \in 1..Len(d) |-> IF d[n].name = entry.name THEN entry ELSE d[n]]
    ELSE Append(d, entry)
DictKeys(d) == {d[n].name : n \in 1..Len(d)}

\* hash((distribution, rng)): both __hash__ methods digest the structure of
\* their object with sha256; the digest is taken to be collision free.
MemoKey(dist, rng) == <<"hash", dist, rng>>

\* The types json.dumps encodes without a default= hook.
JsonTypes == {"dict", "list", "tuple", "str", "int", "float", "bool", "NoneType"}

\* hash_json(data) raises TypeError unless json.dumps can encode every part.
JsonEncodable(types) == \A n \in 1..Len(types) : types[n] \in JsonTypes

\* The parts of MemoizeSqlite's key: distribution.json() is a dict, rng is
\* a RandomKey instance.
SqliteKeyTypes == <<"dict", "RandomKey">>

\* hash_json(key) of MemoizeSqlite, when json.dumps succeeds.
SqliteKey(dist, rng) == <<"sha256", dist, rng>>

\* json.dumps(value) and json.loads(text) on the str values distributions return.
json_dumps(v) == <<"json", v>>
json_loads(text) == text[2]

----------------------------------------------------------------------------
(* lyro/interpreters.py.  An interpreter instance is named by the triple   *)
(* <<class, where it is created, number>>.                                 *)

Kind(i) == i[1]

\* BASE = Standard()
BASE == <<"Standard", "BASE", 0>>
\* the ThreadRandomKey() of the global chain
TRK0 == <<"ThreadRandomKey", "global", 0>>
\* the Memoize() of interpreters.INTERPRETER, or the MemoizeSqlite(TEST_DB)
\* that the test fixture installs
GlobalMemo(kind) == <<kind, "global", 0>>
\* the Standard at the bottom of the global chain: BASE, or the fixture's Standard()
GlobalStandard(kind) == IF kind = "Memoize" THEN BASE ELSE <<"Standard", "conftest", 0>>

\* ThreadRandomKey.force; every instance the repository creates takes the default.
Force(i) == FALSE

\* Interpreter.__add__: other.base = self; return other.
Add(b, self, other) == [b EXCEPT ![other] = self]

\* The mutable state of the interpreter objects and the module global, as
\* one record.
IState ==
    [ptr |-> INTERPRETER, base |-> base, rngOf |-> rngOf, cache |-> cache,
     store |-> store, nodes |-> nodes, condData |-> condData,
     calls |-> calls, handed |-> handed, invoked |-> invoked]

\* ThreadRandomKey(): rng defaults to RandomKey(); base is the class attribute.
NewThreadRandomKey(st, i) ==
    [st EXCEPT !.base = (i :> BASE) @@ @,
               !.rngOf = (i :> RootState) @@ @,
               !.handed = (i :> <<>>) @@ @]

\* Trace(): nodes = {}
NewTrace(st, i) ==
    [st EXCEPT !.base = (i :> BASE) @@ @, !.nodes = (i :> <<>>) @@ @]

\* Condition(data)
NewCondition(st, i, given) ==
    [st EXCEPT !.base = (i :> BASE) @@ @, !.condData = (i :> given) @@ @]

\* Interpreter.__enter__: self.base = INTERPRETER; set_interpreter(self).
Enter(st, self) == [st EXCEPT !.base[self] = st.ptr, !.ptr = self]

\* A variant of __exit__ that resets the global to BASE.
ExitToBase(st, self) == [st EXCEPT !.ptr = BASE]

\* Interpreter.__exit__: set_interpreter(self.base).
Exit(st, self) == [st EXCEPT !.ptr = st.base[self]]

\* __exit__ of the scopes in `scopes`, innermost (last) first, as a with
\* statement leaves them.
RECURSIVE ExitScopes(_, _)
ExitScopes(st, scopes) ==
    IF scopes = <<>> THEN st
    ELSE ExitScopes(Exit(st, scopes[Len(scopes)]), SubSeq(scopes, 1, Len(scopes) - 1))

\* A draw runs down the chain until some interpreter answers, fails, or
\* Standard awaits the Distribution; it is resumed, innermost frame first,
\* when the awaited result arrives.  Descend gives
\*   st     the interpreter state after the way down
\*   frames the sample() calls suspended in `await self.base.sample(...)` or
\*          `await distribution.sample(rng)`, outermost first
\*   out    "value" / "error" if answered on the way down, "invoke" if the
\*          Distribution was called
RECURSIVE Descend(_, _, _, _, _)

Answered(st, res) ==
    [st |-> st, frames |-> <<>>,
     out |-> [t |-> IF res.ok THEN "value" ELSE "error", v |-> res.val]]

\* await self.base.sample(name, distribution, rng)
Delegate(i, name, dist, rng, passed, st) ==
    LET d == Descend(st.base[i], name, dist, passed, st)
    IN  [d EXCEPT !.frames = <<[i |-> i, rng |-> rng]>> \o @]

\* A variant of Standard.sample that does not look at rng.
StandardSampleNoCheck(i, name, dist, rng, st) ==
    [st |-> [st EXCEPT !.invoked = @ + 1],
     frames |-> <<[i |-> i, rng |-> rng]>>,
     out |-> [t |-> "invoke", v |-> ""]]

\* Standard.sample
StandardSample(i, name, dist, rng, st) ==
    IF rng = None
    THEN Answered(st, Raise("ValueError"))
    ELSE [st |-> [st EXCEPT !.invoked = @ + 1],
          frames |-> <<[i |-> i, rng |-> rng]>>,
          out |-> [t |-> "invoke", v |-> ""]]

\* A variant of ThreadRandomKey.sample that does not store the second key.
ThreadRandomKeySampleKeepsRng(i, name, dist, rng, st) ==
    IF rng = None \/ Force(i)
    THEN LET sp == split(st.rngOf[i])
         IN  Delegate(i, name, dist, rng, sp[1],
                      [st EXCEPT !.handed[i] = Append(@, sp[1])])
    ELSE Delegate(i, name, dist, rng, rng, st)

\* ThreadRandomKey.sample
ThreadRandomKeySample(i, name, dist, rng, st) ==
    IF rng = None \/ Force(i)
    THEN LET sp == split(st.rngOf[i])
         IN  Delegate(i, name, dist, rng, sp[1],
                      [st EXCEPT !.rngOf[i] = sp[2],
                                 !.handed[i] = Append(@, sp[1])])
    ELSE Delegate(i, name, dist, rng, rng, st)

\* Memoize.sample, up to the await
MemoizeSample(i, name, dist, rng, st) ==
    IF rng = None
    THEN Answered(st, Raise("ValueError"))
    ELSE IF MemoKey(dist, rng) \in DOMAIN st.cache[i]
         THEN Answered(st, Value(st.cache[i][MemoKey(dist, rng)]))
         ELSE Delegate(i, name, dist, rng, rng, st)

\* MemoizeSqlite.sample, up to the await
MemoizeSqliteSample(i, name, dist, rng, st) ==
    IF rng = None
    THEN Answered(st, Raise("ValueError"))
    ELSE IF ~JsonEncodable(SqliteKeyTypes)
         THEN Answered(st, Raise("TypeError"))
         ELSE IF SqliteKey(dist, rng) \in DOMAIN st.store
              THEN Answered(st, Value(json_loads(st.store[SqliteKey(dist, rng)])))
              ELSE Delegate(i, name, dist, rng, rng, st)

\* Trace.sample, up to the await
TraceSample(i, name, dist, rng, st) == Delegate(i, name, dist, rng, rng, st)

\* A variant of Condition.sample that never looks at its data.
ConditionSampleIgnoresData(i, name, dist, rng, st) ==
    Delegate(i, name, dist, rng, rng, st)

\* Condition.sample, up to the await
ConditionSample(i, name, dist, rng, st) ==
    IF name \in DOMAIN st.condData[i]
    THEN Answered(st, Value(st.condData[i][name]))
    ELSE Delegate(i, name, dist, rng, rng, st)

Descend(i, name, dist, rng, st) ==
    LET st1 == [st EXCEPT !.calls = Append(@, <<i, name, dist, rng>>)]
    IN  CASE Kind(i) = "Standard" -> StandardSample(i, name, dist, rng, st1)
          [] Kind(i) = "ThreadRandomKey" -> ThreadRandomKeySample(i, name, dist, rng, st1)
          [] Kind(i) = "Memoize" -> MemoizeSample(i, name, dist, rng, st1)
          [] Kind(i) = "MemoizeSqlite" -> MemoizeSqliteSample(i, name, dist, rng, st1)
          [] Kind(i) = "Trace" -> TraceSample(i, name, dist, rng, st1)
          [] Kind(i) = "Condition" -> ConditionSample(i, name, dist, rng, st1)

\* Memoize.sample after the await: self.cache[key] = ...; return self.cache[key]
MemoizeResume(f, name, dist, st, res) ==
    IF res.ok
    THEN LET k == MemoKey(dist, f.rng)
             c == (k :> res.val) @@ st.cache[f.i]
         IN  [st |-> [st EXCEPT !.cache[f.i] = c], res |-> Value(c[k])]
    ELSE [st |-> st, res |-> res]

\* MemoizeSqlite.sample after the await: INSERT OR IGNORE; return value
MemoizeSqliteResume(f, name, dist, st, res) ==
    IF res.ok
    THEN LET h == SqliteKey(dist, f.rng)
         IN  [st |-> [st EXCEPT !.store =
                         IF h \in DOMAIN @ THEN @ ELSE (h :> json_dumps(res.val)) @@ @],
              res |-> res]
    ELSE [st |-> st, res |-> res]

\* Trace.sample after the await: self.nodes[name] = TraceNode(...)
TraceResume(f, name, dist, st, res) ==
    IF res.ok
    THEN [st |-> [st EXCEPT !.nodes[f.i] =
                     DictSet(@, [name |-> name, distribution |-> dist,
                                 rng |-> f.rng, value |-> res.val])],
          res |-> res]
    ELSE [st |-> st, res |-> res]

\* Standard, ThreadRandomKey and Condition return what they awaited.
PassResume(f, name, dist, st, res) == [st |-> st, res |-> res]

Resume(f, name, dist, st, res) ==
    CASE Kind(f.i) = "Memoize" -> MemoizeResume(f, name, dist, st, res)
      [] Kind(f.i) = "MemoizeSqlite" -> MemoizeSqliteResume(f, name, dist, st, res)
      [] Kind(f.i) = "Trace" -> TraceResume(f, name, dist, st, res)
      [] OTHER -> PassResume(f, name, dist, st, res)

\* The suspended calls return (or raise) one after the other, innermost first.
RECURSIVE Ascend(_, _, _, _, _)
Ascend(frames, name, dist, st, res) ==
    IF frames = <<>> THEN [st |-> st, res |-> res]
    ELSE LET r == Resume(frames[Len(frames)], name, dist, st, res)
         IN  Ascend(SubSeq(frames, 1, Len(frames) - 1), name, dist, r.st, r.res)

\* runtime.sample(name, distribution) without obs, not interleaved with
\* anything: the way down from INTERPRETER, the Distribution's result v if it
\* was called, and the way up.
DrawThrough(name, dist, st, v) ==
    LET d == Descend(st.ptr, name, dist, None, st)
        res == CASE d.out.t = "invoke" -> Value(v)
                 [] d.out.t = "value" -> Value(d.out.v)
                 [] d.out.t = "error" -> Raise(d.out.v)
    IN  Ascend(d.frames, name, dist, d.st, res)

----------------------------------------------------------------------------
(* Bounds *)

MaxDepth == 4      \* key states are split while shallower than this
MaxHead == 2       \* key states are split while their head is at most this
MaxRuns == 2       \* executions of the program by the client of SpecRuntime
NumSites == 2      \* sites the program of SpecRuntime draws
MaxSites == 3      \* sites the model given to Gibbs draws
MaxSteps == 3      \* largest num_steps passed to Gibbs.sample
MaxScopes == 2     \* with blocks the client of SpecScopes nests
MaxLinks == 2      \* uses of + by the client of SpecScopes
MaxDraws == 2      \* draws by the client of SpecScopes
MaxMemoDraws == 3  \* calls of sample() by the tasks of SpecMemo

\* Values a Distribution may return, and the value a test observes.
Vals == {"u", "w"}
Observed == "X"

----------------------------------------------------------------------------
(* Each specification leaves the variables of the others at these values.  *)

InterpIdle ==
    /\ INTERPRETER = BASE
    /\ base = <<>>
    /\ rngOf = <<>>
    /\ cache = <<>>
    /\ store = <<>>
    /\ nodes = <<>>
    /\ condData = <<>>
    /\ calls = <<>>
    /\ handed = <<>>
    /\ invoked = 0

SplitIdle ==
    /\ key = None
    /\ keyBefore = None
    /\ left = None
    /\ right = None

RuntimeIdle ==
    /\ memKind = "Memoize"
    /\ run = 0
    /\ running = FALSE
    /\ runCfg = <<>>
    /\ pos = 0
    /\ prev = ""
    /\ results = <<>>
    /\ rngAtDraw = <<>>

NoOp == [op |-> "none"]

NoOps == [enters |-> 0, links |-> 0, draws |-> 0, reentries |-> 0]

ScopesIdle ==
    /\ entered = <<>>
    /\ linked = {}
    /\ opsDone = NoOps
    /\ lastOp = NoOp
    /\ draws = <<>>

\* A task of the event loop: where its coroutine stands (pc), whether it
\* waits for a future that is not done (waiting), Task._must_cancel (must),
\* the result of the future it waited for (res), and how it ended.
NewTask(site) ==
    [site |-> site, pc |-> "start", state |-> "pending", exc |-> "",
     waiting |-> FALSE, must |-> FALSE, res |-> Value(""),
     pos |-> 0, locals |-> <<>>, frames |-> <<>>]

NoGather ==
    [id |-> 0, kids |-> <<>>, nfinished |-> 0, done |-> TRUE, exc |-> "",
     cancel_requested |-> FALSE]

NoOutcome == [kind |-> "none", exc |-> "", ret |-> <<>>]

\* the Trace attribute of a Gibbs object before _init assigned it
NoTrace == <<"Trace", "none", 0>>

GibbsIdle ==
    /\ data = <<>>
    /\ numSteps = 0
    /\ distCls = <<>>
    /\ blanketArg = None
    /\ trace = NoTrace
    /\ has_blanket = FALSE
    /\ markov_blanket = <<>>
    /\ rank = <<>>
    /\ counts = <<>>
    /\ tasks = <<>>
    /\ num_pending = 0
    /\ ready = <<>>
    /\ main = NewTask("")
    /\ units = <<>>
    /\ gather = NoGather
    /\ outcome = NoOutcome
    /\ cancelSent = FALSE
    /\ drawFailed = FALSE

----------------------------------------------------------------------------
(* lyro/infer.py: the model and the scheduler of Gibbs.                    *)

\* The model passed to Gibbs: a static program that draws its sites in this
\* order, as model_ab of the tests does.  It calls lyro.sample, the
\* coroutine of lyro/runtime.py that the tests await, without obs.
Program == SubSeq(<<"a", "b", "c", "d">>, 1, MaxSites)

ProgramNames == {Program[n] : n \in 1..Len(Program)}

\* a name the model never draws
Unvisited == "z"

\* The distribution the model builds at a site from the values drawn before.
ModelDist(name, locals) == [cls |-> distCls[name], arg |-> locals]

\* FusedGPT.VARIABLE
VARIABLE_PLACEHOLDER == "MYSTERY_UTTERANCE"

\* FusedGPT(prior.messages, likelihoods)
FusedGPT(prior, likelihoods) ==
    [cls |-> "FusedGPT", arg |-> <<prior.arg, likelihoods>>]

\* await self.model() from site p on, up to the first draw that awaits its
\* Distribution ("suspended"), to the end ("finished") or to an exception.
RECURSIVE RunModel(_, _, _)

\* the model after the draw at site p returned or raised
RunAfterDraw(p, locals, a) ==
    IF a.res.ok THEN RunModel(a.st, p + 1, Append(locals, a.res.val))
    ELSE [st |-> a.st, t |-> "raised", pos |-> p, locals |-> locals,
          frames |-> <<>>, exc |-> a.res.val]

\* the draw at site p, d being the way down the chain
RunDraw(p, locals, d) ==
    IF d.out.t = "invoke"
    THEN [st |-> d.st, t |-> "suspended", pos |-> p, locals |-> locals,
          frames |-> d.frames, exc |-> ""]
    ELSE RunAfterDraw(p, locals,
             Ascend(d.frames, Program[p], ModelDist(Program[p], locals), d.st,
                    IF d.out.t = "value" THEN Value(d.out.v) ELSE Raise(d.out.v)))

RunModel(st, p, locals) ==
    IF p > Len(Program)
    THEN [st |-> st, t |-> "finished", pos |-> p, locals |-> locals,
          frames |-> <<>>, exc |-> ""]
    ELSE RunDraw(p, locals,
                 Descend(st.ptr, Program[p], ModelDist(Program[p], locals), None, st))

\* A dependency graph in the manner of test_gibbs_book: the first site
\* depends on all the others, each of the others on the first.
StarOver(names) ==
    [n \in 1..Len(names) |->
        [name |-> names[n],
         deps |-> IF n = 1 THEN Tail(names) ELSE <<names[1]>>]]

\* A dependency graph that is not symmetric: each site depends on the sites
\* the program draws before it.
EarlierOver(names) ==
    [n \in 1..Len(names) |-> [name |-> names[n], deps |-> SubSeq(names, 1, n - 1)]]

\* the markov_blanket a caller passes to Gibbs(model, data, markov_blanket=...)
TestBlanket == StarOver(Program)

\* Counter.__getitem__: a missing key counts 0
CountOf(c, name) == IF name \in DOMAIN c THEN c[name] ELSE 0

\* min(self.counts.values()) if self.counts else 0
Slowest(c) ==
    IF DOMAIN c # {}
    THEN CHOOSE x \in {c[n] : n \in DOMAIN c} : \A n \in DOMAIN c : x <= c[n]
    ELSE 0

\* A variant of the feasible list without the conflict test.
FeasibleIgnoresDeps(c, t, mb) ==
    SelectSeq(mb, LAMBDA e :
        /\ ~DictHas(t, e.name)
        /\ CountOf(c, e.name) <= Slowest(c))

\* the list `feasible` of _find_work, in the order of markov_blanket.items()
Feasible(c, t, mb) ==
    SelectSeq(mb, LAMBDA e :
        /\ ~DictHas(t, e.name)
        /\ ~\E n \in 1..Len(e.deps) : DictHas(t, e.deps[n])
        /\ CountOf(c, e.name) <= Slowest(c))

\* A variant of the key that prefers the larger rank.
KeyLessReversedRank(c, rk, x, y) ==
    \/ CountOf(c, x) < CountOf(c, y)
    \/ CountOf(c, x) = CountOf(c, y) /\ rk[x] > rk[y]

\* the key of min(...) in _find_work, compared as Python compares tuples
KeyLess(c, rk, x, y) ==
    \/ CountOf(c, x) < CountOf(c, y)
    \/ CountOf(c, x) = CountOf(c, y) /\ rk[x] < rk[y]

\* Gibbs._find_work
find_work(c, t, mb, rk) ==
    LET f == Feasible(c, t, mb)
    IN  IF f = <<>>
        THEN [found |-> FALSE, name |-> "", counts |-> c]
        ELSE LET best == f[CHOOSE n \in 1..Len(f) :
                             \A k \in 1..Len(f) : k = n \/ KeyLess(c, rk, f[n].name, f[k].name)].name
             IN  [found |-> TRUE, name |-> best,
                  counts |-> (best :> CountOf(c, best) + 1) @@ c]

\* Everything a step of sample() or of a unit of work can change, as one record.
World ==
    [ist |-> IState, trace |-> trace, has_blanket |-> has_blanket,
     markov_blanket |-> markov_blanket, rank |-> rank, counts |-> counts,
     tasks |-> tasks, num_pending |-> num_pending, ready |-> ready,
     main |-> main, units |-> units, gather |-> gather, outcome |-> outcome]

\* asyncio.create_task(self._do_work(name)): the task's first step is
\* scheduled with call_soon; self.tasks[name] = task
create_task(w, name) ==
    LET k == Len(w.units) + 1
    IN  [w EXCEPT !.units = Append(@, NewTask(name)),
                  !.tasks = DictSet(@, [name |-> name, task |-> k]),
                  !.ready = Append(@, [t |-> "unit", k |-> k])]

\* A variant of _start_work that does not take the unit from the budget.
RECURSIVE start_workKeepsBudget(_)
start_workKeepsBudget(w) ==
    IF w.num_pending = 0 THEN w
    ELSE LET f == find_work(w.counts, w.tasks, w.markov_blanket, w.rank)
         IN  IF ~f.found THEN w
             ELSE start_workKeepsBudget(create_task([w EXCEPT !.counts = f.counts],
                                                    f.name))

\* one round of the loop of _start_work, f being what _find_work returned
start_work_step(w, f) ==
    IF ~f.found THEN w
    ELSE create_task([w EXCEPT !.counts = f.counts, !.num_pending = @ - 1], f.name)

\* Gibbs._start_work (the state after each round is bound as a value, so
\* that it is computed once)
RECURSIVE start_work(_)
start_work(w) ==
    IF w.num_pending = 0 THEN w
    ELSE CHOOSE r \in
             {IF w1 = w THEN w ELSE start_work(w1) :
                  w1 \in {start_work_step(w, find_work(w.counts, w.tasks,
                                                       w.markov_blanket, w.rank))}} : TRUE

----------------------------------------------------------------------------
(* asyncio, as far as Gibbs uses it: tasks, Task.cancel and gather.        *)

MainEntry == [t |-> "main", k |-> 0]

\* Task.cancel() on a unit of work: False when done; cancels the future the
\* task waits for (the task wakes with CancelledError); else _must_cancel.
CancelTask(w, k) ==
    IF w.units[k].pc = "done" THEN [w |-> w, ret |-> FALSE]
    ELSE IF w.units[k].waiting
         THEN [w |-> [w EXCEPT !.units[k].waiting = FALSE,
                               !.units[k].res = Raise("CancelledError"),
                               !.ready = Append(@, [t |-> "unit", k |-> k])],
               ret |-> TRUE]
         ELSE [w |-> [w EXCEPT !.units[k].must = TRUE], ret |-> TRUE]

\* task.cancel() for each task of ks in turn; ret: some call returned True
RECURSIVE CancelTasks(_, _)
CancelTasks(w, ks) ==
    IF ks = <<>> THEN [w |-> w, ret |-> FALSE]
    ELSE LET c == CancelTask(w, Head(ks))
             r == CancelTasks(c.w, Tail(ks))
         IN  [w |-> r.w, ret |-> c.ret \/ r.ret]

\* The task of a unit of work ends: the callbacks added to it are scheduled.
FinishUnit(w, k, state, exc) ==
    LET w1 == [w EXCEPT !.units[k].pc = "done", !.units[k].state = state,
                        !.units[k].exc = exc, !.units[k].must = FALSE,
                        !.units[k].frames = <<>>]
    IN  IF \E n \in 1..Len(w.gather.kids) : w.gather.kids[n] = k
        THEN [w1 EXCEPT !.ready = Append(@, [t |-> "cb", k |-> k])]
        ELSE w1

\* sample() ends with an exception / with a value.
MainRaise(w, e) ==
    [w EXCEPT !.main.pc = "done",
              !.main.state = IF e = "CancelledError" THEN "cancelled" ELSE "exc",
              !.main.exc = e, !.main.must = FALSE, !.main.frames = <<>>,
              !.outcome = [kind |-> "raised", exc |-> e, ret |-> <<>>]]

MainReturn(w, v) ==
    [w EXCEPT !.main.pc = "done", !.main.state = "ok",
              !.outcome = [kind |-> "returned", exc |-> "", ret |-> v]]

\* outer.set_result / outer.set_exception of gather: sample() is woken.
GatherDone(w, e) ==
    [w EXCEPT !.gather.done = TRUE, !.gather.exc = e,
              !.main.waiting = FALSE, !.ready = Append(@, MainEntry)]

\* gather's _done_callback(fut) for child k
done_callback(w, k) ==
    LET w1 == [w EXCEPT !.gather.nfinished = @ + 1]
    IN  IF w.gather.done THEN w1
        ELSE IF w.units[k].state = "cancelled" THEN GatherDone(w1, "CancelledError")
        ELSE IF w.units[k].state = "exc" THEN GatherDone(w1, w.units[k].exc)
        ELSE IF w1.gather.nfinished = Len(w.gather.kids)
             THEN GatherDone(w1, IF w.gather.cancel_requested
                                 THEN "CancelledError" ELSE "")
             ELSE w1

\* Task.cancel() on the task that runs sample()
CancelMain(w) ==
    IF w.main.pc = "done" THEN w
    ELSE IF ~w.main.waiting THEN [w EXCEPT !.main.must = TRUE]
    ELSE IF w.main.pc = "init"
         THEN [w EXCEPT !.main.waiting = FALSE,
                        !.main.res = Raise("CancelledError"),
                        !.ready = Append(@, MainEntry)]
         ELSE \* _GatheringFuture.cancel()
              LET c == CancelTasks(w, w.gather.kids)
              IN  IF c.ret THEN [c.w EXCEPT !.gather.cancel_requested = TRUE]
                  ELSE [c.w EXCEPT !.main.must = TRUE]

----------------------------------------------------------------------------
(* lyro/infer.py: sample(), _init() and _do_work(), cut at their awaits.   *)

\* the interpreters the methods of Gibbs create; k is the unit of work
CondInit == <<"Condition", "_init", 0>>
TraceInit == <<"Trace", "_init", 0>>
CondLik(k) == <<"Condition", "get_likelihoods", k>>
TraceLik(k) == <<"Trace", "get_likelihoods", k>>
TraceDraw(k) == <<"Trace", "draw", k>>
TraceRerun(k) == <<"Trace", "rerun", k>>
CondRerun(k) == <<"Condition", "rerun", k>>

\* A variant of the data _init conditions on: nothing.
InitConditionDataEmpty == <<>>

\* Condition(self.data) of _init
InitConditionData == data

\* {k: site.value for k, site in self.trace.nodes.items()}; data[name] = value
TraceValues(w, name, value) ==
    LET nd == w.ist.nodes[w.trace]
    IN  (name :> value) @@ [x \in DictKeys(nd) |-> DictGet(nd, x).value]

\* dict.update: the entries of `other` are set one after the other
RECURSIVE DictUpdate(_, _)
DictUpdate(d, other) ==
    IF other = <<>> THEN d ELSE DictUpdate(DictSet(d, Head(other)), Tail(other))

\* dict.pop(name)
DictPop(d, name) == SelectSeq(d, LAMBDA e : e.name # name)

\* the while loop of sample() and what follows it
GatherLoop(w) ==
    IF w.tasks # <<>>
    THEN LET kids == [n \in 1..Len(w.tasks) |-> w.tasks[n].task]
             finished == SelectSeq(kids, LAMBDA k : w.units[k].pc = "done")
         IN  [w EXCEPT !.gather = [id |-> @.id + 1, kids |-> kids, nfinished |-> 0,
                                   done |-> FALSE, exc |-> "",
                                   cancel_requested |-> FALSE],
                       !.main.pc = "gather", !.main.waiting = TRUE,
                       !.ready = @ \o [n \in 1..Len(finished) |->
                                          [t |-> "cb", k |-> finished[n]]]]
    ELSE LET nd == w.ist.nodes[w.trace]
             latent == {x \in DictKeys(nd) : x \notin DOMAIN data}
         IN  IF w.num_pending # 0 THEN MainRaise(w, "AssertionError@146")
             ELSE IF \E x \in DOMAIN data : ~DictHas(nd, x)
                  THEN MainRaise(w, "KeyError@150")
             ELSE IF \E x \in DOMAIN data : DictGet(nd, x).value # data[x]
                  THEN MainRaise(w, "AssertionError@149")
                  ELSE MainReturn(w, [x \in latent |-> DictGet(nd, x).value])

\* the except clause of sample()
SampleExcept(w, e) ==
    IF e = "CancelledError"
    THEN LET c == CancelTasks([w EXCEPT !.num_pending = 0],
                              [n \in 1..Len(w.tasks) |-> w.tasks[n].task])
         IN  MainRaise([c.w EXCEPT !.tasks = <<>>], e)
    ELSE MainRaise(w, e)

\* A variant of _init without the assertion of line 48.
InitFinishNoAssert(w) ==
    LET nd == w.ist.nodes[w.trace]
        latent == SelectSeq(nd, LAMBDA e : e.name \notin DOMAIN data)
        names == [n \in 1..Len(latent) |-> latent[n].name]
        complete == [n \in 1..Len(names) |-> [name |-> names[n], deps |-> names]]
        rk == [x \in {names[n] : n \in 1..Len(names)} |->
                  Len(names) - (CHOOSE n \in 1..Len(names) : names[n] = x)]
    IN  GatherLoop(start_work(
            [w EXCEPT !.markov_blanket = IF w.has_blanket THEN @ ELSE complete,
                      !.has_blanket = TRUE,
                      !.rank = rk]))

\* _init after the model returned, then _start_work and the loop of sample()
InitFinish(w) ==
    LET nd == w.ist.nodes[w.trace]
        latent == SelectSeq(nd, LAMBDA e : e.name \notin DOMAIN data)
        names == [n \in 1..Len(latent) |-> latent[n].name]
        complete == [n \in 1..Len(names) |-> [name |-> names[n], deps |-> names]]
        rk == [x \in {names[n] : n \in 1..Len(names)} |->
                  Len(names) - (CHOOSE n \in 1..Len(names) : names[n] = x)]
    IN  IF ~(DOMAIN data \subseteq DictKeys(nd))
        THEN SampleExcept(w, "AssertionError@48")
        ELSE GatherLoop(start_work(
                 [w EXCEPT !.markov_blanket = IF w.has_blanket THEN @ ELSE complete,
                           !.has_blanket = TRUE,
                           !.rank = rk]))

\* _init while the model runs
InitRun(w, r) ==
    CASE r.t = "suspended" ->
           [w EXCEPT !.ist = r.st, !.main.pc = "init", !.main.waiting = TRUE,
                     !.main.pos = r.pos, !.main.locals = r.locals,
                     !.main.frames = r.frames]
      [] r.t = "finished" ->
           InitFinish([w EXCEPT !.ist = ExitScopes(r.st, <<CondInit, TraceInit>>),
                                !.main.frames = <<>>])
      [] r.t = "raised" ->
           SampleExcept([w EXCEPT !.ist = ExitScopes(r.st, <<CondInit, TraceInit>>)],
                        r.exc)

\* the first step of sample(): to the first await of _init, or further
SampleStart(w) ==
    IF w.main.must THEN MainRaise(w, "CancelledError")
    ELSE LET st1 == Enter(NewCondition(w.ist, CondInit, InitConditionData), CondInit)
             st2 == Enter(NewTrace(st1, TraceInit), TraceInit)
         IN  InitRun([w EXCEPT !.num_pending = numSteps, !.ist = st2,
                               !.trace = TraceInit],
                     RunModel(st2, 1, <<>>))

\* sample() woken inside _init
SampleResumeInit(w) ==
    LET res == IF w.main.must THEN Raise("CancelledError") ELSE w.main.res
        name == Program[w.main.pos]
        dist == ModelDist(name, w.main.locals)
        a == Ascend(w.main.frames, name, dist, w.ist, res)
        w1 == [w EXCEPT !.ist = a.st, !.main.must = FALSE]
    IN  IF a.res.ok
        THEN InitRun(w1, RunModel(a.st, w.main.pos + 1,
                                  Append(w.main.locals, a.res.val)))
        ELSE SampleExcept([w1 EXCEPT !.ist = ExitScopes(a.st, <<CondInit, TraceInit>>)],
                          a.res.val)

\* sample() woken at await asyncio.gather(...)
SampleResumeGather(w) ==
    IF w.main.must THEN MainRaise(w, "CancelledError")
    ELSE IF w.gather.exc # "" THEN MainRaise(w, w.gather.exc)
    ELSE GatherLoop(w)

\* get_likelihoods after its with block: the messages of the neighbors
LikelihoodsOf(name, mb, st, seen) ==
    LET neighbors == SelectSeq(DictGet(mb, name).deps, LAMBDA x : x # name)
    IN  IF \E n \in 1..Len(neighbors) :
              DictGet(seen, neighbors[n]).distribution.cls # "ChatGPT"
        THEN [st |-> st, res |-> Raise("AssertionError@173")]
        ELSE [st |-> st,
              res |-> Value([n \in 1..Len(neighbors) |->
                                DictGet(seen, neighbors[n]).distribution.arg])]

\* get_likelihoods once the model returned or raised, st being the state
\* after the with block
LikelihoodsAfterModel(w, k, name, r, st) ==
    IF r.t = "raised" THEN [st |-> st, res |-> Raise(r.exc)]
    ELSE LikelihoodsOf(name, w.markov_blanket, st, st.nodes[TraceLik(k)])

\* with Condition(data), Trace() as trace: of get_likelihoods
LikelihoodsScope(w, k, name, value) ==
    Enter(NewTrace(Enter(NewCondition(w.ist, CondLik(k), TraceValues(w, name, value)),
                         CondLik(k)),
                   TraceLik(k)),
          TraceLik(k))

LikelihoodsRun(w, k, name, r) ==
    LikelihoodsAfterModel(w, k, name, r, ExitScopes(r.st, <<CondLik(k), TraceLik(k)>>))

\* Gibbs.get_likelihoods(name, value), for a model that does not cede
\* control when every site is conditioned
get_likelihoods(w, k, name, value) ==
    LikelihoodsRun(w, k, name, RunModel(LikelihoodsScope(w, k, name, value), 1, <<>>))

\* _do_work after the with block of line 113: update, finally, _start_work
DoWorkMerge(w, k, name, r, st) ==
    IF r.t = "raised"
    THEN FinishUnit([w EXCEPT !.ist = st, !.tasks = DictPop(@, name)], k, "exc", r.exc)
    ELSE FinishUnit(start_work(
                        [w EXCEPT !.ist = [st EXCEPT !.nodes[w.trace] =
                                              DictUpdate(@, st.nodes[TraceRerun(k)])],
                                  !.tasks = DictPop(@, name)]),
                    k, "ok", "")

\* with Trace() as trace, Condition(data): of _do_work
RerunScope(w, k, name, value) ==
    Enter(NewCondition(Enter(NewTrace(w.ist, TraceRerun(k)), TraceRerun(k)),
                       CondRerun(k), TraceValues(w, name, value)),
          CondRerun(k))

DoWorkRerunDone(w, k, name, r) ==
    DoWorkMerge(w, k, name, r, ExitScopes(r.st, <<TraceRerun(k), CondRerun(k)>>))

\* _do_work from `data = {...}` (line 109) to its end, the draw having
\* returned `value` and the with block of the draw being left
DoWorkRerun(w, k, value) ==
    DoWorkRerunDone(w, k, w.units[k].site,
                    RunModel(RerunScope(w, k, w.units[k].site, value), 1, <<>>))

\* _do_work once the draw of line 108 returned or raised: a is the state of
\* the interpreters and the result
DoWorkAfterDraw(w, k, a) ==
    IF a.res.ok
    THEN DoWorkRerun([w EXCEPT !.ist = Exit(a.st, TraceDraw(k))], k, a.res.val)
    ELSE FinishUnit([w EXCEPT !.ist = Exit(a.st, TraceDraw(k)),
                              !.tasks = DictPop(@, w.units[k].site)],
                    k,
                    IF a.res.val = "CancelledError" THEN "cancelled" ELSE "exc",
                    a.res.val)

\* the draw of line 108, d being the way down the chain
DoWorkAwait(w, k, posterior, d) ==
    IF d.out.t = "invoke"
    THEN [w EXCEPT !.ist = d.st, !.units[k].pc = "draw",
                   !.units[k].waiting = TRUE, !.units[k].frames = d.frames,
                   !.units[k].locals = posterior]
    ELSE DoWorkAfterDraw(w, k,
             Ascend(d.frames, w.units[k].site, posterior, d.st,
                    IF d.out.t = "value" THEN Value(d.out.v) ELSE Raise(d.out.v)))

\* with Trace() as trace: value = await lyro.sample(name, local_posterior)
DoWorkDraw(w, k, posterior, st) ==
    DoWorkAwait(w, k, posterior, Descend(st.ptr, w.units[k].site, posterior, None, st))

\* _do_work once get_likelihoods returned or raised
DoWorkPosterior(w, k, prior, lik) ==
    IF ~lik.res.ok
    THEN FinishUnit([w EXCEPT !.ist = lik.st], k, "exc", lik.res.val)
    ELSE DoWorkDraw(w, k, FusedGPT(prior, lik.res.val),
                    Enter(NewTrace(lik.st, TraceDraw(k)), TraceDraw(k)))

\* the prior of _do_work: self.trace.nodes[name].distribution
PriorOf(w, k) == DictGet(w.ist.nodes[w.trace], w.units[k].site).distribution

\* the first step of a unit of work: to the await of the draw, or further
DoWorkStart(w, k) ==
    IF w.units[k].must THEN FinishUnit(w, k, "cancelled", "CancelledError")
    ELSE IF PriorOf(w, k).cls # "ChatGPT"
         THEN FinishUnit(w, k, "exc", "AssertionError@100")
         ELSE DoWorkPosterior(w, k, PriorOf(w, k),
                  get_likelihoods(w, k, w.units[k].site, VARIABLE_PLACEHOLDER))

\* a unit of work woken at the await of the draw
DoWorkResume(w, k) ==
    DoWorkAfterDraw([w EXCEPT !.units[k].must = FALSE], k,
        Ascend(w.units[k].frames, w.units[k].site, w.units[k].locals, w.ist,
               IF w.units[k].must THEN Raise("CancelledError") ELSE w.units[k].res))

----------------------------------------------------------------------------
(* SpecSplit: split() applied to every key reachable from the root.        *)

SplitStart ==
    /\ key = RootState
    /\ keyBefore = None
    /\ left = None
    /\ right = None

SplitInit ==
    /\ SplitStart
    /\ InterpIdle
    /\ RuntimeIdle
    /\ ScopesIdle
    /\ GibbsIdle

\* left, right = key.split()
SplitKey ==
    /\ left = None
    /\ Depth(key) < MaxDepth
    /\ key[2] <= MaxHead
    /\ left' = split(key)[1]
    /\ right' = split(key)[2]
    /\ keyBefore' = key
    /\ key' = key
    /\ UNCHANGED <<interpVars, runtimeVars, scopeVars, gibbsVars, loopVars>>

\* continue with the deeper key
TakeLeft ==
    /\ left # None
    /\ key' = left
    /\ keyBefore' = None
    /\ left' = None
    /\ right' = None
    /\ UNCHANGED <<interpVars, runtimeVars, scopeVars, gibbsVars, loopVars>>

\* continue with the incremented key
TakeRight ==
    /\ left # None
    /\ key' = right
    /\ keyBefore' = None
    /\ left' = None
    /\ right' = None
    /\ UNCHANGED <<interpVars, runtimeVars, scopeVars, gibbsVars, loopVars>>

SplitNext == SplitKey \/ TakeLeft \/ TakeRight

SpecSplit == SplitInit /\ [][SplitNext]_vars

----------------------------------------------------------------------------
(* SpecRuntime: a test in the manner of test/test_runtime.py runs          *)
(* hash_model several times, each time in scopes of its choice, over the   *)
(* global chain BASE + Memoize() + ThreadRandomKey() or over the chain the *)
(* test fixture installs.  Draws of one execution follow one another.      *)

\* hash_model: the names f"x_{i}" and the distribution UniformHash(x).
SiteNames == <<"x_0", "x_1", "x_2", "x_3">>
ProgramStart == "foo"
ProgramDist(x) == [cls |-> "UniformHash", arg |-> x]

\* with ThreadRandomKey(): ... of execution r, and a Condition(data) scope
RunTRK(r) == <<"ThreadRandomKey", "run", r>>
RunCond(r) == <<"Condition", "run", r>>

\* The data a Condition scope of the client may hold: one observed site.
DataChoices == {<<>>} \cup {(SiteNames[n] :> Observed) : n \in 1..NumSites}

\* The (distribution, rng) pairs that reached a memoizing interpreter.
MemoLookups(log) ==
    {<<log[n][3], log[n][4]>> :
        n \in {m \in 1..Len(log) : Kind(log[m][1]) \in {"Memoize", "MemoizeSqlite"}}}

RuntimeInit ==
    /\ SplitIdle
    /\ GibbsIdle
    /\ ScopesIdle
    /\ memKind \in {"Memoize", "MemoizeSqlite"}
    /\ base = Add(Add([i \in {BASE, GlobalStandard(memKind), GlobalMemo(memKind), TRK0}
                          |-> BASE],
                      GlobalStandard(memKind), GlobalMemo(memKind)),
                  GlobalMemo(memKind), TRK0)
    /\ INTERPRETER = TRK0
    /\ rngOf = (TRK0 :> RootState)
    /\ cache = [i \in {GlobalMemo(memKind)} \cap {GlobalMemo("Memoize")} |-> <<>>]
    /\ store = <<>>
    /\ nodes = <<>>
    /\ condData = <<>>
    /\ calls = <<>>
    /\ handed = (TRK0 :> <<>>)
    /\ invoked = 0
    /\ run = 0
    /\ running = FALSE
    /\ runCfg = <<>>
    /\ pos = 0
    /\ prev = ProgramStart
    /\ results = <<>>
    /\ rngAtDraw = <<>>

\* The interpreter variables take the values of the record st.
SetIState(st) ==
    /\ INTERPRETER' = st.ptr
    /\ base' = st.base
    /\ rngOf' = st.rngOf
    /\ cache' = st.cache
    /\ store' = st.store
    /\ nodes' = st.nodes
    /\ condData' = st.condData
    /\ calls' = st.calls
    /\ handed' = st.handed
    /\ invoked' = st.invoked

\* with ThreadRandomKey(): / with Condition(data): entered by execution run + 1
BeginRun(trk, given) ==
    /\ ~running
    /\ run < MaxRuns
    /\ LET r == run + 1
           cond == DOMAIN given # {}
           st1 == IF trk THEN Enter(NewThreadRandomKey(IState, RunTRK(r)), RunTRK(r))
                  ELSE IState
           st2 == IF cond THEN Enter(NewCondition(st1, RunCond(r), given), RunCond(r))
                  ELSE st1
       IN  /\ run' = r
           /\ SetIState(st2)
           /\ runCfg' = Append(runCfg,
                  [trk |-> trk, data |-> given,
                   scopes |-> (IF trk THEN <<RunTRK(r)>> ELSE <<>>)
                              \o (IF cond THEN <<RunCond(r)>> ELSE <<>>)])
           /\ results' = Append(results, <<>>)
    /\ running' = TRUE
    /\ pos' = 0
    /\ prev' = ProgramStart
    /\ UNCHANGED <<rngAtDraw, memKind, splitVars, scopeVars, gibbsVars, loopVars>>

\* x = await lyro.sample(f"x_{i}", UniformHash(x)), the Distribution returning v
\* if it is called; an exception leaves the scopes of the execution.
Draw(v) ==
    /\ running
    /\ pos < NumSites
    /\ LET name == SiteNames[pos + 1]
           dist == ProgramDist(prev)
           r == DrawThrough(name, dist, [IState EXCEPT !.calls = <<>>], v)
       IN  /\ (r.st.invoked = invoked) => v = CHOOSE w \in Vals : TRUE
           /\ results' = [results EXCEPT ![run] =
                  Append(@, [name |-> name, dist |-> dist, ok |-> r.res.ok,
                             val |-> r.res.val, top |-> INTERPRETER,
                             called |-> r.st.invoked > invoked,
                             memo |-> MemoLookups(r.st.calls)])]
           /\ IF r.res.ok
              THEN /\ pos' = pos + 1
                   /\ prev' = r.res.val
                   /\ running' = TRUE
                   /\ SetIState(r.st)
              ELSE /\ running' = FALSE
                   /\ SetIState(ExitScopes(r.st, runCfg[run].scopes))
                   /\ UNCHANGED <<pos, prev>>
    /\ rngAtDraw' = rngOf
    /\ UNCHANGED <<run, runCfg, memKind, splitVars, scopeVars, gibbsVars, loopVars>>

\* the program returned: the scopes of the execution are left
EndRun ==
    /\ running
    /\ pos = NumSites
    /\ running' = FALSE
    /\ SetIState(ExitScopes(IState, runCfg[run].scopes))
    /\ UNCHANGED <<run, runCfg, pos, prev, results, rngAtDraw, memKind, splitVars, scopeVars, gibbsVars, loopVars>>

RuntimeNext ==
    \/ \E trk \in BOOLEAN, given \in DataChoices : BeginRun(trk, given)
    \/ \E v \in Vals : Draw(v)
    \/ EndRun

SpecRuntime == RuntimeInit /\ [][RuntimeNext]_vars

----------------------------------------------------------------------------
(* SpecScopes: a client of lyro/interpreters.py composes interpreters with *)
(* +, enters and leaves them with `with`, and draws through the active     *)
(* chain with lyro.sample, one draw at a time.  It starts from the global  *)
(* chain BASE + Memoize() + ThreadRandomKey().                             *)

\* the instances the client creates
ClientMemoize == <<"Memoize", "client", 1>>
ClientTrace == <<"Trace", "client", 1>>

ClientPool == {ClientMemoize, ClientTrace}

\* the sites the client draws
ClientNames == {"x", "y"}
ClientDist(name) == [cls |-> "UniformHash", arg |-> name]

\* the instance is entered by a with block the client is inside
Active(i) == \E n \in 1..Len(entered) : entered[n].inst = i

\* the chain below i ends at a Standard within n delegations
RECURSIVE EndsAtStandard(_, _, _)
EndsAtStandard(b, i, n) ==
    \/ Kind(i) = "Standard"
    \/ n > 0 /\ EndsAtStandard(b, b[i], n - 1)

\* The process starts with the module's chain, INTERPRETER = BASE +
\* Memoize() + ThreadRandomKey(), or after set_interpreter() made it BASE.
ScopesInit ==
    /\ SplitIdle
    /\ RuntimeIdle
    /\ GibbsIdle
    /\ base = Add(Add([i \in ClientPool \cup {BASE, GlobalMemo("Memoize"), TRK0}
                          |-> BASE],
                      BASE, GlobalMemo("Memoize")),
                  GlobalMemo("Memoize"), TRK0)
    /\ INTERPRETER \in {BASE, TRK0}
    /\ rngOf = (TRK0 :> RootState)
    /\ cache = (GlobalMemo("Memoize") :> <<>>) @@ (ClientMemoize :> <<>>)
    /\ store = <<>>
    /\ nodes = (ClientTrace :> <<>>)
    /\ condData = <<>>
    /\ calls = <<>>
    /\ handed = (TRK0 :> <<>>)
    /\ invoked = 0
    /\ entered = <<>>
    /\ linked = {GlobalMemo("Memoize"), TRK0}
    /\ opsDone = NoOps
    /\ lastOp = NoOp
    /\ draws = <<>>

\* with i: ... is entered.  __enter__ has no raise statement.
EnterScope(i) ==
    /\ opsDone.enters < MaxScopes
    /\ SetIState(Enter(IState, i))
    /\ entered' = Append(entered, [inst |-> i, before |-> INTERPRETER])
    /\ linked' = linked \cup {i}
    /\ opsDone' = [opsDone EXCEPT !.enters = @ + 1,
                                  !.reentries = IF Active(i) THEN @ + 1 ELSE @]
    /\ lastOp' = [op |-> "enter", inst |-> i, wasActive |-> Active(i),
                  wasStacked |-> lastOp.op = "add" /\ lastOp.other = i,
                  ptrBefore |-> INTERPRETER, baseBefore |-> base[i],
                  raised |-> FALSE]
    /\ UNCHANGED <<draws, splitVars, runtimeVars, gibbsVars, loopVars>>

\* The innermost with block is left, its body having returned or raised.
ExitScope(failed) ==
    /\ entered # <<>>
    /\ SetIState(Exit(IState, entered[Len(entered)].inst))
    /\ entered' = SubSeq(entered, 1, Len(entered) - 1)
    /\ lastOp' = [op |-> "exit", inst |-> entered[Len(entered)].inst,
                  before |-> entered[Len(entered)].before, failed |-> failed]
    /\ UNCHANGED <<linked, opsDone, draws, splitVars, runtimeVars, gibbsVars, loopVars>>

\* a + b, for an instance b that is in no with block.  __add__ has no raise
\* statement and returns other.
Stack(a, b) ==
    /\ opsDone.links < MaxLinks
    /\ a # b
    /\ ~Active(b)
    /\ base' = Add(base, a, b)
    /\ linked' = linked \cup {b}
    /\ opsDone' = [opsDone EXCEPT !.links = @ + 1]
    /\ lastOp' = [op |-> "add", inst |-> a, other |-> b, hadBase |-> b \in linked,
                  baseBefore |-> base[b], raised |-> FALSE, ret |-> b]
    /\ UNCHANGED <<INTERPRETER, rngOf, cache, store, nodes, condData, calls, handed,
                   invoked, entered, draws, splitVars, runtimeVars, gibbsVars,
                   loopVars>>

\* await lyro.sample(name, ClientDist(name)); the Distribution, if it is
\* called, returns v.  The client draws only through chains that end.
ScopeDraw(name, v) ==
    /\ opsDone.draws < MaxDraws
    /\ EndsAtStandard(base, INTERPRETER, Cardinality(DOMAIN base))
    /\ LET r == DrawThrough(name, ClientDist(name), [IState EXCEPT !.calls = <<>>], v)
       IN  /\ SetIState(r.st)
           /\ lastOp' = [op |-> "draw", name |-> name, v |-> v, res |-> r.res,
                         invokedBefore |-> invoked, cacheBefore |-> cache,
                         nodesBefore |-> nodes]
    /\ opsDone' = [opsDone EXCEPT !.draws = @ + 1]
    /\ UNCHANGED <<entered, linked, draws, splitVars, runtimeVars, gibbsVars, loopVars>>

ScopesNext ==
    \/ \E i \in ClientPool : EnterScope(i)
    \/ \E failed \in BOOLEAN : ExitScope(failed)
    \/ \E a \in ClientPool \cup {BASE}, b \in ClientPool : Stack(a, b)
    \/ \E name \in ClientNames, v \in Vals : ScopeDraw(name, v)

SpecScopes == ScopesInit /\ [][ScopesNext]_vars

----------------------------------------------------------------------------
(* SpecMemo: tasks of one event loop call sample(name, distribution, rng)  *)
(* on the memoizing interpreter of the global chain, Memoize or            *)
(* MemoizeSqlite, with keys of their choice; a call that awaits the        *)
(* Distribution is suspended, and other calls begin or end meanwhile.      *)

\* the memoizing interpreter the tasks call
Memo == GlobalMemo(memKind)

\* the keys the tasks pass: the two keys RandomKey().split() returns
MemoRngs == {split(RootState)[1], split(RootState)[2]}

\* the site and its distribution: a ChatGPT, whose sample() does not use rng
\* and returns what the service answers
MemoName == "x"
MemoDist == [cls |-> "ChatGPT", arg |-> <<>>]

\* the key is in the cache of the Memoize, or in the table of the MemoizeSqlite
Cached(rng) ==
    IF memKind = "Memoize"
    THEN MemoKey(MemoDist, rng) \in DOMAIN cache[Memo]
    ELSE SqliteKey(MemoDist, rng) \in DOMAIN store

MemoInit ==
    /\ SplitIdle
    /\ GibbsIdle
    /\ ScopesIdle
    /\ memKind \in {"Memoize", "MemoizeSqlite"}
    /\ base = Add(Add([i \in {BASE, GlobalStandard(memKind), GlobalMemo(memKind), TRK0}
                          |-> BASE],
                      GlobalStandard(memKind), GlobalMemo(memKind)),
                  GlobalMemo(memKind), TRK0)
    /\ INTERPRETER = TRK0
    /\ rngOf = (TRK0 :> RootState)
    /\ cache = [i \in {GlobalMemo(memKind)} \cap {GlobalMemo("Memoize")} |-> <<>>]
    /\ store = <<>>
    /\ nodes = <<>>
    /\ condData = <<>>
    /\ calls = <<>>
    /\ handed = (TRK0 :> <<>>)
    /\ invoked = 0
    /\ run = 0
    /\ running = FALSE
    /\ runCfg = <<>>
    /\ pos = 0
    /\ prev = ""
    /\ results = <<>>
    /\ rngAtDraw = <<>>

\* the call went down the chain (d) and is suspended at the Distribution, or
\* was answered on the way
MemoBegun(rng, d) ==
    IF d.out.t = "invoke"
    THEN /\ SetIState(d.st)
         /\ draws' = Append(draws, [rng |-> rng, pc |-> "await", frames |-> d.frames,
                                    cached |-> Cached(rng), delegated |-> TRUE,
                                    res |-> Value("")])
    ELSE LET a == Ascend(d.frames, MemoName, MemoDist, d.st,
                         IF d.out.t = "value" THEN Value(d.out.v) ELSE Raise(d.out.v))
         IN  /\ SetIState(a.st)
             /\ draws' = Append(draws, [rng |-> rng, pc |-> "done", frames |-> <<>>,
                                        cached |-> Cached(rng), delegated |-> FALSE,
                                        res |-> a.res])

\* A task calls Memo.sample(MemoName, MemoDist, rng).
MemoBegin(rng) ==
    /\ Len(draws) < MaxMemoDraws
    /\ MemoBegun(rng, Descend(Memo, MemoName, MemoDist, rng,
                              [IState EXCEPT !.calls = <<>>]))
    /\ lastOp' = [op |-> "begin", n |-> Len(draws) + 1, cacheBefore |-> cache,
                  storeBefore |-> store]
    /\ UNCHANGED <<entered, linked, opsDone, splitVars, runtimeVars, gibbsVars,
                   loopVars>>

\* The Distribution awaited by call n returns v and the call runs to its end.
MemoFinish(n, v) ==
    /\ draws[n].pc = "await"
    /\ LET a == Ascend(draws[n].frames, MemoName, MemoDist,
                       [IState EXCEPT !.calls = <<>>], Value(v))
       IN  /\ SetIState(a.st)
           /\ draws' = [draws EXCEPT ![n].pc = "done", ![n].frames = <<>>,
                                     ![n].res = a.res]
    /\ lastOp' = [op |-> "finish", n |-> n, cacheBefore |-> cache,
                  storeBefore |-> store]
    /\ UNCHANGED <<entered, linked, opsDone, splitVars, runtimeVars, gibbsVars,
                   loopVars>>

MemoNext ==
    \/ \E rng \in MemoRngs : MemoBegin(rng)
    \/ \E n \in 1..Len(draws), v \in Vals : MemoFinish(n, v)

SpecMemo == MemoInit /\ [][MemoNext]_vars

----------------------------------------------------------------------------
(* Spec: one call of Gibbs(model, data).sample(num_steps) as a task of an  *)
(* event loop, over the global chain BASE + Memoize() + ThreadRandomKey(). *)
(* The loop runs its callbacks in FIFO order; the environment resolves the *)
(* awaited Distribution calls and may cancel the task of sample() between  *)
(* any two callbacks.                                                      *)

Init ==
    /\ SplitIdle
    /\ RuntimeIdle
    /\ ScopesIdle
    /\ base = Add(Add([i \in {BASE, GlobalMemo("Memoize"), TRK0} |-> BASE],
                      BASE, GlobalMemo("Memoize")),
                  GlobalMemo("Memoize"), TRK0)
    /\ INTERPRETER = TRK0
    /\ rngOf = (TRK0 :> RootState)
    /\ cache = (GlobalMemo("Memoize") :> <<>>)
    /\ store = <<>>
    /\ nodes = <<>>
    /\ condData = <<>>
    /\ calls = <<>>
    /\ handed = (TRK0 :> <<>>)
    /\ invoked = 0
    /\ data \in {[x \in S |-> Observed] : S \in SUBSET (ProgramNames \cup {Unvisited})}
    /\ numSteps \in 0..MaxSteps
    /\ distCls \in {f \in [ProgramNames -> {"ChatGPT", "UniformHash"}] :
                       Cardinality({x \in ProgramNames : f[x] # "ChatGPT"}) <= 1}
    /\ blanketArg \in {None, TestBlanket}
    /\ trace = NoTrace
    /\ has_blanket = FALSE
    /\ markov_blanket = <<>>
    /\ rank = <<>>
    /\ counts = <<>>
    /\ tasks = <<>>
    /\ num_pending = 0
    /\ ready = <<MainEntry>>
    /\ main = NewTask("sample")
    /\ units = <<>>
    /\ gather = NoGather
    /\ outcome = NoOutcome
    /\ cancelSent = FALSE
    /\ drawFailed = FALSE

\* The variables a step can change take the values of the record w.
SetWorld(w) ==
    /\ SetIState(w.ist)
    /\ trace' = w.trace
    /\ has_blanket' = w.has_blanket
    /\ markov_blanket' = w.markov_blanket
    /\ rank' = w.rank
    /\ counts' = w.counts
    /\ tasks' = w.tasks
    /\ num_pending' = w.num_pending
    /\ ready' = w.ready
    /\ main' = w.main
    /\ units' = w.units
    /\ gather' = w.gather
    /\ outcome' = w.outcome
    /\ UNCHANGED <<data, numSteps, distCls, blanketArg, splitVars, scopeVars,
                   runtimeVars>>

\* the state a callback starts from: it is taken off the queue, and the log
\* of interpreter calls is the log of this callback
Popped == [World EXCEPT !.ready = Tail(ready), !.ist.calls = <<>>]

Runs(t) == ready # <<>> /\ Head(ready).t = t

\* the first step of the task of sample()
StartSample ==
    /\ Runs("main") /\ main.pc = "start"
    /\ SetWorld(SampleStart(Popped))
    /\ UNCHANGED <<cancelSent, drawFailed>>

\* the task of sample() wakes inside _init
ResumeInit ==
    /\ Runs("main") /\ main.pc = "init"
    /\ SetWorld(SampleResumeInit(Popped))
    /\ UNCHANGED <<cancelSent, drawFailed>>

\* the task of sample() wakes at its gather
ResumeGather ==
    /\ Runs("main") /\ main.pc = "gather"
    /\ SetWorld(SampleResumeGather(Popped))
    /\ UNCHANGED <<cancelSent, drawFailed>>

\* the first step of a unit of work
StartUnit ==
    /\ Runs("unit") /\ units[Head(ready).k].pc = "start"
    /\ SetWorld(DoWorkStart(Popped, Head(ready).k))
    /\ UNCHANGED <<cancelSent, drawFailed>>

\* a unit of work wakes at its draw
ResumeUnit ==
    /\ Runs("unit") /\ units[Head(ready).k].pc = "draw"
    /\ SetWorld(DoWorkResume(Popped, Head(ready).k))
    /\ UNCHANGED <<cancelSent, drawFailed>>

\* gather's callback for a finished child
GatherCallback ==
    /\ Runs("cb")
    /\ SetWorld(done_callback(Popped, Head(ready).k))
    /\ UNCHANGED <<cancelSent, drawFailed>>

\* The Distribution awaited by the draw of _init returns v.
DistReturnInit(v) ==
    /\ main.pc = "init" /\ main.waiting
    /\ main' = [main EXCEPT !.waiting = FALSE, !.res = Value(v)]
    /\ ready' = Append(ready, MainEntry)
    /\ UNCHANGED <<splitVars, scopeVars, interpVars, runtimeVars, gibbsVars, units, gather,
                   outcome, cancelSent, drawFailed>>

\* The Distribution awaited by unit k returns v.
DistReturnUnit(k, v) ==
    /\ units[k].pc = "draw" /\ units[k].waiting
    /\ units' = [units EXCEPT ![k].waiting = FALSE, ![k].res = Value(v)]
    /\ ready' = Append(ready, [t |-> "unit", k |-> k])
    /\ UNCHANGED <<splitVars, scopeVars, interpVars, runtimeVars, gibbsVars, main, gather,
                   outcome, cancelSent, drawFailed>>

\* The Distribution awaited by the draw of _init raises.  At most one
\* Distribution call raises in a behaviour.
DistFailInit ==
    /\ ~drawFailed
    /\ main.pc = "init" /\ main.waiting
    /\ main' = [main EXCEPT !.waiting = FALSE, !.res = Raise("RuntimeError")]
    /\ ready' = Append(ready, MainEntry)
    /\ drawFailed' = TRUE
    /\ UNCHANGED <<splitVars, scopeVars, interpVars, runtimeVars, gibbsVars, units, gather,
                   outcome, cancelSent>>

\* The Distribution awaited by unit k raises.
DistFailUnit(k) ==
    /\ ~drawFailed
    /\ units[k].pc = "draw" /\ units[k].waiting
    /\ units' = [units EXCEPT ![k].waiting = FALSE, ![k].res = Raise("RuntimeError")]
    /\ ready' = Append(ready, [t |-> "unit", k |-> k])
    /\ drawFailed' = TRUE
    /\ UNCHANGED <<splitVars, scopeVars, interpVars, runtimeVars, gibbsVars, main, gather,
                   outcome, cancelSent>>

\* The caller cancels the task of sample(), once.
Cancel ==
    /\ ~cancelSent
    /\ main.pc # "done"
    /\ cancelSent' = TRUE
    /\ SetWorld(CancelMain(World))
    /\ UNCHANGED drawFailed

Next ==
    \/ StartSample
    \/ ResumeInit
    \/ ResumeGather
    \/ StartUnit
    \/ ResumeUnit
    \/ GatherCallback
    \/ \E v \in Vals : DistReturnInit(v)
    \/ \E k \in 1..Len(units), v \in Vals : DistReturnUnit(k, v)
    \/ DistFailInit
    \/ \E k \in 1..Len(units) : DistFailUnit(k)
    \/ Cancel

Spec == Init /\ [][Next]_vars

----------------------------------------------------------------------------
(* SpecPreset: as Spec, for a Gibbs object whose markov_blanket attribute  *)
(* the caller has assigned after construction (_init keeps an attribute it *)
(* finds): a graph over the latent sites in which only the first depends   *)
(* on the others, so that units of work for the others may overlap, or a   *)
(* graph in which each site depends on the sites drawn before it.          *)

\* the sites of the model that are not in data, in program order
LatentOrder(d) == SelectSeq(Program, LAMBDA x : x \notin DOMAIN d)

PresetInit ==
    /\ SplitIdle
    /\ RuntimeIdle
    /\ ScopesIdle
    /\ base = Add(Add([i \in {BASE, GlobalMemo("Memoize"), TRK0} |-> BASE],
                      BASE, GlobalMemo("Memoize")),
                  GlobalMemo("Memoize"), TRK0)
    /\ INTERPRETER = TRK0
    /\ rngOf = (TRK0 :> RootState)
    /\ cache = (GlobalMemo("Memoize") :> <<>>)
    /\ store = <<>>
    /\ nodes = <<>>
    /\ condData = <<>>
    /\ calls = <<>>
    /\ handed = (TRK0 :> <<>>)
    /\ invoked = 0
    /\ data \in {[x \in S |-> Observed] : S \in SUBSET ProgramNames}
    /\ numSteps \in 0..MaxSteps
    /\ distCls = [x \in ProgramNames |-> "ChatGPT"]
    /\ blanketArg = None
    /\ trace = NoTrace
    /\ has_blanket = TRUE
    /\ markov_blanket \in {StarOver(LatentOrder(data)), EarlierOver(LatentOrder(data))}
    /\ rank = <<>>
    /\ counts = <<>>
    /\ tasks = <<>>
    /\ num_pending = 0
    /\ ready = <<MainEntry>>
    /\ main = NewTask("sample")
    /\ units = <<>>
    /\ gather = NoGather
    /\ outcome = NoOutcome
    /\ cancelSent = FALSE
    /\ drawFailed = FALSE

SpecPreset == PresetInit /\ [][Next]_vars

----------------------------------------------------------------------------
(* C9: split(k) returns deeper = (k, 0) and incremented =                  *)
(* (tail(k), head(k) + 1); deeper, incremented and k are pairwise          *)
(* distinct, and k is left as it was.                                      *)
C9_SplitShape ==
    left # None =>
        /\ left = <<keyBefore, 0>>
        /\ right = <<keyBefore[1], keyBefore[2] + 1>>
        /\ left # right
        /\ left # keyBefore
        /\ right # keyBefore
        /\ key = keyBefore

\* a key two levels below the root, with a head that was incremented, is split
C9_Witness ==
    /\ left # None
    /\ Depth(key) >= 3
    /\ key[2] >= 1

----------------------------------------------------------------------------
(* SpecSched: the scheduling of Gibbs alone, without failure and without   *)
(* cancellation.  _init is one step that finds the latent sites; a unit of *)
(* work is two steps, its first up to the request it awaits and its last   *)
(* from the answer to its end; what the draws return is left out.          *)

SchedInit ==
    /\ SplitIdle
    /\ RuntimeIdle
    /\ ScopesIdle
    /\ base = Add(Add([i \in {BASE, GlobalMemo("Memoize"), TRK0} |-> BASE],
                      BASE, GlobalMemo("Memoize")),
                  GlobalMemo("Memoize"), TRK0)
    /\ INTERPRETER = TRK0
    /\ rngOf = (TRK0 :> RootState)
    /\ cache = (GlobalMemo("Memoize") :> <<>>)
    /\ store = <<>>
    /\ nodes = <<>>
    /\ condData = <<>>
    /\ calls = <<>>
    /\ handed = (TRK0 :> <<>>)
    /\ invoked = 0
    /\ data \in {[x \in S |-> Observed] : S \in SUBSET ProgramNames}
    /\ numSteps \in 0..MaxSteps
    /\ distCls = [x \in ProgramNames |-> "ChatGPT"]
    /\ blanketArg = None
    /\ trace = NoTrace
    /\ has_blanket \in BOOLEAN
    /\ markov_blanket \in IF has_blanket
                          THEN {StarOver(LatentOrder(data)), EarlierOver(LatentOrder(data))}
                          ELSE {<<>>}
    /\ rank = <<>>
    /\ counts = <<>>
    /\ tasks = <<>>
    /\ num_pending = 0
    /\ ready = <<>>
    /\ main = NewTask("sample")
    /\ units = <<>>
    /\ gather = NoGather
    /\ outcome = NoOutcome
    /\ cancelSent = FALSE
    /\ drawFailed = FALSE

\* sample() up to its first gather: num_pending = num_steps, the graph and
\* the ranks of _init over the latent sites, _start_work
SchedBegun(w, names) ==
    start_work(
        [w EXCEPT !.num_pending = numSteps,
                  !.markov_blanket =
                      IF w.has_blanket THEN @
                      ELSE [n \in 1..Len(names) |-> [name |-> names[n], deps |-> names]],
                  !.has_blanket = TRUE,
                  !.rank = [x \in {names[n] : n \in 1..Len(names)} |->
                               Len(names) - (CHOOSE n \in 1..Len(names) : names[n] = x)],
                  !.main.pc = "gather", !.main.waiting = TRUE])

\* A variant of the end of _do_work without the call of _start_work.
UnitEndedNoRestart(w, k) ==
    [w EXCEPT !.tasks = DictPop(@, w.units[k].site),
              !.units[k].pc = "done", !.units[k].state = "ok",
              !.units[k].waiting = FALSE]

\* the end of _do_work: finally self.tasks.pop(name), then _start_work
UnitEnded(w, k) ==
    start_work([w EXCEPT !.tasks = DictPop(@, w.units[k].site),
                         !.units[k].pc = "done", !.units[k].state = "ok",
                         !.units[k].waiting = FALSE])

SchedBegin ==
    /\ main.pc = "start"
    /\ \E w \in {SchedBegun(World, LatentOrder(data))} : SetWorld(w)
    /\ UNCHANGED <<cancelSent, drawFailed>>

\* the loop runs the first step of the unit at the head of its queue, which
\* ends at the request the unit awaits
SchedRun ==
    /\ Runs("unit") /\ units[Head(ready).k].pc = "start"
    /\ SetWorld([World EXCEPT !.ready = Tail(@),
                              !.units[Head(ready).k].pc = "draw",
                              !.units[Head(ready).k].waiting = TRUE])
    /\ UNCHANGED <<cancelSent, drawFailed>>

\* the request of unit k is answered and the unit runs to its end
SchedUnitEnds(k) ==
    /\ k \in 1..Len(units)
    /\ units[k].pc = "draw" /\ units[k].waiting
    /\ \E w \in {UnitEnded(World, k)} : SetWorld(w)
    /\ UNCHANGED <<cancelSent, drawFailed>>

\* while self.tasks: ...; assert self.num_pending == 0; return
SchedReturn ==
    /\ main.pc = "gather"
    /\ tasks = <<>>
    /\ SetWorld(IF num_pending # 0 THEN MainRaise(World, "AssertionError@146")
                ELSE MainReturn(World, <<>>))
    /\ UNCHANGED <<cancelSent, drawFailed>>

SchedNext ==
    \/ SchedBegin
    \/ SchedRun
    \/ \E k \in 1..Len(units) : SchedUnitEnds(k)
    \/ SchedReturn

\* The event loop runs every callback that is ready, and every request a
\* unit of work awaits is answered.
SpecSched ==
    /\ SchedInit
    /\ [][SchedNext]_vars
    /\ WF_vars(SchedBegin)
    /\ WF_vars(SchedRun)
    /\ \A k \in 1..MaxSteps : WF_vars(SchedUnitEnds(k))
    /\ WF_vars(SchedReturn)

----------------------------------------------------------------------------
(* Claims about the interpreters, checked on SpecRuntime *)

\* The last draw of the current execution, if it has made one.
HasDrawn == run >= 1 /\ results[run] # <<>>
LastDraw == results[run][Len(results[run])]

\* sample() calls of the last draw that were made on interpreter i
CallsOn(i) == {n \in 1..Len(calls) : calls[n][1] = i}

(* C4: a draw through Condition for a name in its data returns the mapped  *)
(* value without any call further down: the Distribution is not sampled    *)
(* and no ThreadRandomKey changes its held key; for a name not in the data *)
(* Condition calls its base exactly once with the same arguments.          *)
C4_ConditionShortCircuit ==
    (HasDrawn /\ Kind(LastDraw.top) = "Condition") =>
        LET c == LastDraw.top
            name == LastDraw.name
        IN  /\ calls[1] = <<c, name, LastDraw.dist, None>>
            /\ IF name \in DOMAIN condData[c]
               THEN /\ Len(calls) = 1
                    /\ LastDraw.ok
                    /\ LastDraw.val = condData[c][name]
                    /\ ~LastDraw.called
                    /\ rngOf = rngAtDraw
               ELSE /\ Cardinality(CallsOn(base[c])) = 1
                    /\ calls[2] = <<base[c], name, LastDraw.dist, None>>

\* the second site is observed: the first draw went down the chain and moved
\* the key of the ThreadRandomKey under the Condition, the second did not
C4_Witness ==
    /\ HasDrawn
    /\ Kind(LastDraw.top) = "Condition"
    /\ runCfg[run].trk
    /\ Len(results[run]) = 2
    /\ results[run][1].called
    /\ LastDraw.name \in DOMAIN condData[LastDraw.top]
    /\ rngOf[RunTRK(run)] # RootState

(* C7: two executions, each in a fresh ThreadRandomKey scope (and the same *)
(* Condition data), over the same chain with Memoize or MemoizeSqlite give *)
(* the same value at every site, and every draw of the later one is a      *)
(* cache hit: it succeeds without the Distribution being called.           *)
C7_ReplayIsCached ==
    \A r1, r2 \in 1..Len(runCfg) :
        (r1 < r2 /\ runCfg[r1].trk /\ runCfg[r2].trk
                 /\ runCfg[r1].data = runCfg[r2].data) =>
            \A n \in 1..Len(results[r2]) :
                /\ results[r2][n].ok
                /\ ~results[r2][n].called
                /\ n <= Len(results[r1])
                /\ results[r1][n].ok
                /\ results[r1][n].val = results[r2][n].val

(* C8: a ThreadRandomKey never derives the same key twice for the draws    *)
(* that reach it without an rng, so two executions through the long-lived  *)
(* ThreadRandomKey of the global chain look up disjoint cache keys.        *)
C8_FreshKeys ==
    /\ \A i \in DOMAIN handed :
          \A m, n \in 1..Len(handed[i]) : m # n => handed[i][m] # handed[i][n]
    /\ \A r1, r2 \in 1..Len(runCfg) :
          (r1 # r2 /\ ~runCfg[r1].trk /\ ~runCfg[r2].trk) =>
              \A m \in 1..Len(results[r1]), n \in 1..Len(results[r2]) :
                  results[r1][m].memo \cap results[r2][n].memo = {}

\* two executions ran to the end through the global ThreadRandomKey, every
\* draw reaching the Memoize with a key of its own and calling the Distribution
C8_Witness ==
    /\ run = 2
    /\ ~running
    /\ \A r \in 1..2 :
          /\ ~runCfg[r].trk
          /\ DOMAIN runCfg[r].data = {}
          /\ Len(results[r]) = NumSites
          /\ \A n \in 1..NumSites : results[r][n].called /\ results[r][n].memo # {}
    /\ results[1][1].dist = results[2][1].dist
    /\ Len(handed[TRK0]) = 2 * NumSites

----------------------------------------------------------------------------
(* Claims about Gibbs.sample, checked on Spec *)

\* the latent sites of the model: those not in the observed data
LatentSites == ProgramNames \ DOMAIN data

\* the sites in self.tasks
InFlight == {tasks[n].name : n \in 1..Len(tasks)}

AllChatGPT == \A x \in ProgramNames : distCls[x] = "ChatGPT"

\* the dependency list of a site in self.markov_blanket
DepsOf(x) ==
    LET e == DictGet(markov_blanket, x) IN {e.deps[n] : n \in 1..Len(e.deps)}

(* C1: for a program with m >= 0 latent sites that all draw from ChatGPT,  *)
(* data on sites of the program only and a budget n >= m, if no draw fails *)
(* and the caller does not cancel,                                         *)
(* sample(n) ends by returning, with num_pending = 0 and tasks empty, a    *)
(* mapping whose keys are exactly the latent sites.                        *)
C1_SampleReturnsLatents ==
    (/\ main.pc = "done"
     /\ DOMAIN data \subseteq ProgramNames
     /\ numSteps >= Cardinality(LatentSites)
     /\ AllChatGPT
     /\ ~drawFailed
     /\ ~cancelSent)
    => /\ outcome.kind = "returned"
       /\ num_pending = 0
       /\ tasks = <<>>
       /\ DOMAIN outcome.ret = LatentSites

C3_ObservedKept ==
    /\ has_blanket =>
           \A x \in DOMAIN data :
               /\ DictHas(nodes[trace], x)
               /\ DictGet(nodes[trace], x).value = data[x]
    /\ outcome.exc # "AssertionError@149"
    /\ outcome.kind = "returned" => DOMAIN outcome.ret \cap DOMAIN data = {}

\* sample returned after two units of work resampled a latent site next to
\* an observed one.
C3_Witness ==
    /\ outcome.kind = "returned"
    /\ DOMAIN data # {}
    /\ DOMAIN outcome.ret # {}
    /\ Cardinality({k \in 1..Len(units) : units[k].state = "ok"}) >= 2

(* C5: when a cancellation by the caller reaches the caller as             *)
(* CancelledError, every unit of work has ended and self.tasks is empty.   *)
C5_CancelLeavesNoTask ==
    (cancelSent /\ outcome.kind = "raised" /\ outcome.exc = "CancelledError")
    => /\ tasks = <<>>
       /\ \A k \in 1..Len(units) : units[k].pc = "done"

(* C6: a cancellation by the caller, during _init or while sample waits    *)
(* for its units of work, is raised to the caller as CancelledError, and   *)
(* num_pending is 0 when it is.                                            *)
C6_CancelResetsPending ==
    (cancelSent /\ main.pc = "done" /\ ~drawFailed /\ AllChatGPT)
    => /\ outcome.kind = "raised"
       /\ outcome.exc = "CancelledError"
       /\ num_pending = 0

(* C10: if a unit of work fails, its site is no longer in self.tasks and   *)
(* sample does not return a mapping: it raises the error of the unit.      *)
C10_FailureEscalates ==
    \A k \in 1..Len(units) :
        (units[k].state = "exc" /\ ~cancelSent)
        => /\ ~\E n \in 1..Len(tasks) : tasks[n].task = k
           /\ outcome.kind # "returned"
           /\ main.pc = "done" => outcome.exc = units[k].exc

(* C14: when a markov_blanket was passed to Gibbs(...), it is the graph    *)
(* self.markov_blanket that _find_work reads once _init has run; the       *)
(* complete graph over the latent sites is there only when none was passed. *)
C14_GivenGraphIsUsed ==
    has_blanket
    => IF blanketArg # None
       THEN markov_blanket = blanketArg
       ELSE \A n \in 1..Len(markov_blanket) :
                {markov_blanket[n].deps[m] : m \in 1..Len(markov_blanket[n].deps)}
                    = LatentSites

(* C15: if data has a key the model does not draw in _init, no unit of     *)
(* work is ever created, self.tasks stays empty, and sample, unless it is  *)
(* cancelled or a draw fails, raises the AssertionError of _init; and no   *)
(* unit of work exists before _init has returned.                          *)
C15_UnvisitedKeyFails ==
    /\ ~(DOMAIN data \subseteq ProgramNames)
       => /\ units = <<>>
          /\ tasks = <<>>
          /\ (main.pc = "done" /\ ~cancelSent /\ ~drawFailed)
             => outcome = [kind |-> "raised", exc |-> "AssertionError@48",
                           ret |-> <<>>]
    /\ units # <<>> => has_blanket /\ main.pc \notin {"start", "init"}

\* sample(n), n > 0, has raised the AssertionError of _init for data with a
\* key of the program and a key outside it, the model having latent sites;
\* nothing was started
C15_Witness ==
    /\ Unvisited \in DOMAIN data
    /\ DOMAIN data \cap ProgramNames # {}
    /\ LatentSites # {}
    /\ numSteps > 0
    /\ outcome.exc = "AssertionError@48"
    /\ units = <<>>
    /\ num_pending = numSteps

\* unit k is the last unit of work for its site that ended without exception
LastDone(k) ==
    /\ units[k].state = "ok"
    /\ \A j \in (k + 1)..Len(units) :
           units[j].site = units[k].site => units[j].state # "ok"

(* C17: once a unit of work for a site has ended without exception, the    *)
(* entry of the site in self.trace holds the value that the unit drew from  *)
(* the local posterior (the value of the last such unit for the site).     *)
C17_MergeWritesDraw ==
    \A k \in 1..Len(units) :
        LastDone(k)
        => DictGet(nodes[trace], units[k].site).value = units[k].res.val

(* C18: the Trace of each execution of the model by Gibbs records every    *)
(* site the model draws: the Trace of _init once _init has returned, the   *)
(* Trace of get_likelihoods once it has returned, and the Trace of the     *)
(* rerun in _do_work once the unit has ended without exception.            *)
C18_TraceSeesAllSites ==
    /\ has_blanket => DictKeys(nodes[TraceInit]) = ProgramNames
    /\ \A k \in 1..Len(units) :
           /\ (units[k].pc = "draw" \/ units[k].state = "ok")
              => DictKeys(nodes[TraceLik(k)]) = ProgramNames
           /\ units[k].state = "ok"
              => DictKeys(nodes[TraceRerun(k)]) = ProgramNames

(* C24: with the default complete graph and m >= 1 latent sites at most    *)
(* one unit of work is in flight, and the k-th unit launched (k = 0, 1,    *)
(* ...) is for the latent site at position m-1-(k mod m) of the order in   *)
(* which _init met the latent sites: the last one met is resampled first.  *)
C24_RoundRobin ==
    LET L == LatentOrder(data)
        m == Len(L)
    IN  /\ Len(tasks) <= 1
        /\ \A k \in 0..(Len(units) - 1) :
               m >= 1 /\ units[k + 1].site = L[m - (k % m)]

\* with two latent sites a third unit was launched: the round began again
C24_Witness ==
    /\ Len(LatentOrder(data)) = 2
    /\ Len(units) = 3
    /\ units[3].site = units[1].site
    /\ units[2].site # units[1].site

----------------------------------------------------------------------------
(* Claims about overlapping units of work, checked on SpecPreset *)

\* the scopes a unit of work enters
UnitScopes == {"get_likelihoods", "draw", "rerun"}

(* C19: a draw made by a unit of work does not go through a scope that     *)
(* another unit entered, the Trace a unit draws in records no site but the *)
(* unit's, and when sample and all units have ended INTERPRETER is the     *)
(* chain it was before sample was called.                                  *)
C19_UnitsIsolated ==
    /\ \A n \in 1..Len(calls) :
           calls[n][1][2] \in UnitScopes
           => \A m \in 1..Len(calls) :
                  calls[m][1][2] \in UnitScopes => calls[m][1][3] = calls[n][1][3]
    /\ \A k \in 1..Len(units) :
           TraceDraw(k) \in DOMAIN nodes
           => DictKeys(nodes[TraceDraw(k)]) \subseteq {units[k].site}
    /\ (main.pc = "done" /\ ready = <<>>
        /\ \A k \in 1..Len(units) : units[k].pc = "done")
       => INTERPRETER = TRK0

(* C23: at every point of sample the step counts of any two latent sites   *)
(* differ by at most 1, for the graph of SpecPreset as for the default one.*)
C23_CountsBalanced ==
    \A x \in LatentSites, y \in LatentSites :
        CountOf(counts, x) <= CountOf(counts, y) + 1

(* C25: while a site s is in flight no other site of its dependency list   *)
(* is in flight, also for a graph that is not symmetric.                   *)
C25_DepsNotInFlight ==
    \A s \in InFlight : \A x \in DepsOf(s) \ {s} : x \notin InFlight

----------------------------------------------------------------------------
(* Claims about SpecScopes *)

(* C11: while the client never enters an instance that is already active,  *)
(* each entered instance delegates to the chain it displaced, the innermost *)
(* one is INTERPRETER, and leaving a with block, its body having returned  *)
(* or raised, puts back the chain that was active before the matching      *)
(* enter.                                                                  *)
C11_ScopesNest ==
    opsDone.reentries = 0
    => /\ \A n \in 1..Len(entered) :
              /\ base[entered[n].inst] = entered[n].before
              /\ n > 1 => entered[n].before = entered[n - 1].inst
       /\ entered # <<>> => INTERPRETER = entered[Len(entered)].inst
       /\ lastOp.op = "enter"
          => INTERPRETER = lastOp.inst /\ base[lastOp.inst] = lastOp.ptrBefore
       /\ lastOp.op = "exit" => INTERPRETER = lastOp.before

\* the inner of two nested with blocks was left by a failing body
C11_Witness ==
    /\ opsDone.reentries = 0
    /\ lastOp.op = "exit"
    /\ lastOp.failed
    /\ Len(entered) = 1
    /\ INTERPRETER = entered[1].inst

(* C12: entering an instance that an enclosing with block has entered      *)
(* raises, and leaves INTERPRETER and the base of the instance as they     *)
(* were; no instance is its own base.                                      *)
C12_ReentryFails ==
    (lastOp.op = "enter" /\ lastOp.wasActive)
    => /\ lastOp.raised
       /\ INTERPRETER = lastOp.ptrBefore
       /\ base[lastOp.inst] = lastOp.baseBefore
       /\ base[lastOp.inst] # lastOp.inst

(* C13: a + b sets b.base = a and returns b when b was given no base       *)
(* before; when b was given a base before, by + or by a with block, it     *)
(* raises and b.base stays as it was.                                      *)
C13_StackOnce ==
    lastOp.op = "add"
    => IF lastOp.hadBase
       THEN lastOp.raised /\ base[lastOp.other] = lastOp.baseBefore
       ELSE ~lastOp.raised /\ base[lastOp.other] = lastOp.inst
            /\ lastOp.ret = lastOp.other

\* the last instance of the chain that the draw of lastOp went down
LastCalled == calls[Len(calls)]

C20_TraceKeepsEntries ==
    lastOp.op = "draw"
    => \A i \in DOMAIN lastOp.nodesBefore :
           \A n \in 1..Len(lastOp.nodesBefore[i]) :
               nodes[i][n] = lastOp.nodesBefore[i][n]

(* C28: with a + b: entering b right after a + b returned it leaves        *)
(* b.base = a; only INTERPRETER changes.                                   *)
C28_EnterKeepsLinks ==
    (lastOp.op = "enter" /\ lastOp.wasStacked)
    => /\ base[lastOp.inst] = lastOp.baseBefore
       /\ INTERPRETER = lastOp.inst

----------------------------------------------------------------------------
(* Claims about SpecMemo *)

(* C21: an entry of the cache of a Memoize never changes once it is there, *)
(* and every call that returned a value for a key returned the value the   *)
(* cache holds for it, also when two calls for one key both began before   *)
(* either's Distribution returned.                                         *)
C21_CacheNeverChanges ==
    memKind = "Memoize"
    => /\ lastOp.op \in {"begin", "finish"}
          => \A k \in DOMAIN lastOp.cacheBefore[Memo] :
                 cache[Memo][k] = lastOp.cacheBefore[Memo][k]
       /\ \A n \in 1..Len(draws) :
              (draws[n].pc = "done" /\ draws[n].res.ok)
              => draws[n].res.val = cache[Memo][MemoKey(MemoDist, draws[n].rng)]

(* C22: with MemoizeSqlite every call ends without exception, also two     *)
(* calls for one key that both missed; a row of the table never changes    *)
(* once it is there; and a call for a key that has a row returns the value *)
(* of the row without calling its base.                                    *)
C22_SqliteRaceIsHarmless ==
    memKind = "MemoizeSqlite"
    => /\ \A n \in 1..Len(draws) : draws[n].pc = "done" => draws[n].res.ok
       /\ lastOp.op \in {"begin", "finish"}
          => \A k \in DOMAIN lastOp.storeBefore : store[k] = lastOp.storeBefore[k]
       /\ \A n \in 1..Len(draws) :
              draws[n].cached
              => /\ ~draws[n].delegated
                 /\ draws[n].res = Value(json_loads(store[SqliteKey(MemoDist, draws[n].rng)]))

----------------------------------------------------------------------------
(* Claims about SpecSched *)

\* no draw failed, no unit of work or call ended with an exception, and the
\* caller did not cancel
NoFailure ==
    /\ ~cancelSent
    /\ ~drawFailed
    /\ outcome.kind # "raised"
    /\ \A k \in 1..Len(units) : units[k].state \notin {"exc", "cancelled"}

\* _init has returned: the graph and the ranks are there
Initialised == main.pc \in {"gather", "done"}

\* either the budget is spent or _find_work would find no site
WorkConserved ==
    num_pending = 0 \/ Feasible(counts, tasks, markov_blanket) = <<>>

(* C27: absent failure and cancellation, whenever sample or a unit of work *)
(* has ceded control after _init, either num_pending = 0 or no site is     *)
(* feasible (a unit that ends well calls _start_work in the same step);    *)
(* and budget that is pending is eventually launched.                      *)
C27_WorkConserving ==
    /\ []((Initialised /\ NoFailure) => WorkConserved)
    /\ (Initialised /\ num_pending > 0) ~> (num_pending = 0 \/ ~NoFailure)

\* a unit has ended well and another is in flight, with budget still
\* pending because the sites in flight block every site
C27_Witness ==
    /\ main.pc = "gather"
    /\ NoFailure
    /\ Len(units) >= 2
    /\ units[1].state = "ok"
    /\ tasks # <<>>
    /\ num_pending = 1
    /\ Feasible(counts, tasks, markov_blanket) = <<>>

=============================================================================
